---- MODULE Spec2Model ----
(***************************************************************************)
(* Model of watchso: the hot-reload orchestrator for Solana programs.      *)
(*                                                                         *)
(* Text is modelled as sequences of one-character strings, so that the     *)
(* suffix stripping, extension and case folding of the source are computed *)
(* and not assumed.  A path is a record [dir, file]: `dir` names the parent *)
(* directory and `file` is the last component, character by character.     *)
(* An absent value (Rust's None) is the empty sequence and Some(x) is <<x>>.*)
(***************************************************************************)
EXTENDS Integers, Sequences, FiniteSets, TLC

VARIABLES
    project_map,   \* ProjectMap: program name -> program path
    qpath,         \* names: the path last given to get_program_path
    qresult,       \* names: what get_program_path returned for qpath
    file_content,  \* identity sync: the text of the source file on disk
    id_pattern,    \* identity sync: which declaration pattern is active
    updates,       \* identity sync: one record per application, in order
    src_files,     \* identity sync of a program: the .rs files of its src directory
    syncs,         \* identity sync of a program: one record per sync, in order
    fw,            \* the framework variant: "native", "anchor" or "seahorse"
    programs,      \* disk: the programs whose manifest (or .py file) can be read
    build_cmd,     \* Native's BuildCommand
    pc,            \* where the process is: a stage of initialize, the watch loop
    pending,       \* the notifications the watcher gathers for the next action
    batch_paths,   \* the unique paths of the action being handled (or the last)
    batch_signals, \* the signals of that action
    batch_repeats, \* the paths that more than one notification of it mentions
    todo,          \* the unique paths the first loop has not visited yet
    builds,        \* unique_program_paths of the framework's on_action
    builds_todo,   \* the positions of builds not built yet
    issued,        \* the commands and lookups issued by the running operation
    called,        \* whether the framework's on_action was called for the action
    logged,        \* whether the handler printed an error for the action
    prev_logged,   \* whether it printed one for the action before
    result,        \* what the handler returned: "none" while it runs
    outcome,       \* the Outcome the handler set on the action
    installed,     \* disk: the tools whose `--version` probe exits with zero
    manifest_ok,   \* disk: whether the manifest of the root can be read
    deploy_exists, \* disk: whether target/deploy exists
    keypair_paths, \* initialize: the keypair files found in target/deploy
    elf_paths,     \* initialize: the artifact files found in target/deploy
    failed_at,     \* the stage whose error initialize returned, "none" if none
    root_entries,  \* disk: the names of the entries of the root directory
    running,       \* the build commands running as children of the process
    shown          \* the success and error messages the progress indicators showed

nameVars == <<qpath, qresult>>

syncVars == <<src_files, syncs>>

idVars == <<file_content, id_pattern, updates, syncVars>>

watchVars == <<fw, programs, build_cmd, pc, pending, batch_paths, batch_signals,
               batch_repeats, todo, builds,
               builds_todo, issued, called, logged, prev_logged, result, outcome,
               installed, manifest_ok, deploy_exists, keypair_paths, elf_paths,
               failed_at, root_entries, running, shown>>

initVars == <<installed, manifest_ok, deploy_exists, keypair_paths, elf_paths,
              failed_at, root_entries, shown>>

vars == <<project_map, nameVars, idVars, watchVars>>

----------------------------------------------------------------------------
(* Options and text *)

None == <<>>

Some(x) == <<x>>

\* constants.rs: extension
RS == <<"r", "s">>

TOML == <<"t", "o", "m", "l">>

SO == <<"s", "o">>

JSON == <<"j", "s", "o", "n">>

PY == <<"p", "y">>

\* framework_utils.rs: the suffixes given to ProgramName::from_path
KEYPAIR_SUFFIX == <<"-", "k", "e", "y", "p", "a", "i", "r", ".", "j", "s", "o", "n">>

ELF_SUFFIX == <<".", "s", "o">>

\* str::ends_with
EndsWith(s, suf) ==
    /\ Len(suf) <= Len(s)
    /\ SubSeq(s, Len(s) - Len(suf) + 1, Len(s)) = suf

\* str::trim_end_matches: strips the suffix repeatedly, as long as it matches
RECURSIVE TrimEndMatches(_, _)
TrimEndMatches(s, suf) ==
    IF Len(suf) > 0 /\ EndsWith(s, suf)
    THEN TrimEndMatches(SubSeq(s, 1, Len(s) - Len(suf)), suf)
    ELSE s

\* the index of the last "." of s, 0 when there is none
LastDot(s) ==
    LET dots == {i \in 1..Len(s) : s[i] = "."}
    IN  IF dots = {} THEN 0 ELSE CHOOSE i \in dots : \A j \in dots : j <= i

\* std::path::Path::extension of a path whose last component is `file`: the
\* text after the last ".", None when there is no "." or only a leading one
Extension(file) ==
    IF file = <<".", ".">> \/ LastDot(file) <= 1
    THEN None
    ELSE Some(SubSeq(file, LastDot(file) + 1, Len(file)))

\* str::replace('_', "-")
ReplaceUnderscores(s) == [i \in 1..Len(s) |-> IF s[i] = "_" THEN "-" ELSE s[i]]

----------------------------------------------------------------------------
(* ProgramName *)

\* ProgramName::from_path
from_path(path, suffix) ==
    IF EndsWith(path.file, suffix)
    THEN Some(TrimEndMatches(path.file, suffix))
    ELSE None

\* ProgramName::from_keypair_path
from_keypair_path(path) == from_path(path, KEYPAIR_SUFFIX)

\* ProgramName::from_elf_path
from_elf_path(path) == from_path(path, ELF_SUFFIX)

\* ProgramName::original
original(name) == name

\* a kebab_case that folds nothing
kebab_case_unfolded(name) == name

\* ProgramName::kebab_case
kebab_case(name) == ReplaceUnderscores(name)

----------------------------------------------------------------------------
(* ProjectMap *)

\* ProjectMap::get_program_path_from_name
get_program_path_from_name(map, name) ==
    IF name \in DOMAIN map THEN Some(map[name]) ELSE None

\* the name get_program_path derives from the path: by extension, then suffix
derived_name(path) ==
    LET ext == Extension(path.file)
    IN  IF ext = Some(JSON) THEN from_keypair_path(path)
        ELSE IF ext = Some(SO) THEN from_elf_path(path)
        ELSE None

\* a lookup that tries the folded name before the name as derived
get_program_path_kebab_first(map, path) ==
    LET program_name == derived_name(path)
    IN  IF program_name = None THEN None
        ELSE LET first == get_program_path_from_name(map, kebab_case(program_name[1]))
             IN  IF first # None THEN first
                 ELSE get_program_path_from_name(map, original(program_name[1]))

\* ProjectMap::get_program_path
get_program_path(map, path) ==
    LET program_name == derived_name(path)
    IN  IF program_name = None THEN None
        ELSE LET first == get_program_path_from_name(map, original(program_name[1]))
             IN  IF first # None THEN first
                 ELSE get_program_path_from_name(map, kebab_case(program_name[1]))

\* ProjectMap::set_program_path (HashMap::insert: insert or overwrite)
set_program_path(map, name, path) ==
    [n \in DOMAIN map \cup {name} |-> IF n = name THEN path ELSE map[n]]

EmptyMap == [n \in {} |-> None]

----------------------------------------------------------------------------
(* Name resolution: the inputs *)

MaxNameLen == 2

MaxEntries == 2

NameChars == {"a", "_", "-"}

RECURSIVE SeqsUpTo(_, _)
SeqsUpTo(S, n) ==
    IF n = 0 THEN {<<>>}
    ELSE LET shorter == SeqsUpTo(S, n - 1)
         IN  shorter \cup {Append(s, c) : s \in shorter, c \in S}

\* program names: a letter followed by letters and separators, and two names
\* that end with the text of a build-output suffix
ProgramNames ==
    {<<"a">> \o s : s \in SeqsUpTo(NameChars, MaxNameLen - 1)}
        \cup {<<"a">> \o ELF_SUFFIX, <<"a">> \o KEYPAIR_SUFFIX}

DeployDir == "/w/pj/target/deploy"

ProgramsDir == "/w/pj/programs"

ProgramRoots == {[dir |-> ProgramsDir, file |-> <<"p", "1">>],
                 [dir |-> ProgramsDir, file |-> <<"p", "2">>]}

\* the files asked about: a keypair and an artifact per name, and files that are
\* neither
QueryFiles ==
    {n \o KEYPAIR_SUFFIX : n \in ProgramNames}
        \cup {n \o ELF_SUFFIX : n \in ProgramNames}
        \cup {<<"a", ".", "j", "s", "o", "n">>, <<"a", "s", "o">>, <<"a", ".", "r", "s">>}

IdIdle ==
    /\ file_content = <<>>
    /\ id_pattern = "none"
    /\ updates = <<>>
    /\ src_files = <<>>
    /\ syncs = <<>>

\* no framework runs: the lookups and the patcher are exercised on their own
WatchIdle ==
    /\ pending = <<>>
    /\ fw = "none"
    /\ programs = {}
    /\ build_cmd = "cargo build-sbf"
    /\ pc = "idle"
    /\ batch_paths = {}
    /\ batch_signals = {}
    /\ batch_repeats = {}
    /\ todo = {}
    /\ builds = <<>>
    /\ builds_todo = {}
    /\ issued = <<>>
    /\ called = FALSE
    /\ logged = FALSE
    /\ prev_logged = FALSE
    /\ result = "none"
    /\ outcome = "none"
    /\ installed = {}
    /\ manifest_ok = TRUE
    /\ deploy_exists = TRUE
    /\ keypair_paths = {}
    /\ elf_paths = {}
    /\ failed_at = "none"
    /\ root_entries = {}
    /\ running = {}
    /\ shown = {}

NamesInit ==
    /\ project_map = EmptyMap
    /\ qpath = None
    /\ qresult = None
    /\ IdIdle
    /\ WatchIdle

\* name mapping precedes every lookup (Framework::initialize)
NamesSet(name, path) ==
    /\ qpath = None
    /\ Cardinality(DOMAIN project_map \cup {name}) <= MaxEntries
    /\ project_map' = set_program_path(project_map, name, path)
    /\ UNCHANGED <<nameVars, idVars, watchVars>>

NamesQuery(file) ==
    /\ qpath' = Some([dir |-> DeployDir, file |-> file])
    /\ qresult' = get_program_path(project_map, [dir |-> DeployDir, file |-> file])
    /\ UNCHANGED <<project_map, idVars, watchVars>>

NamesNext ==
    \/ \E name \in ProgramNames, path \in ProgramRoots : NamesSet(name, path)
    \/ \E file \in QueryFiles : NamesQuery(file)

SpecNames == NamesInit /\ [][NamesNext]_vars

----------------------------------------------------------------------------
(* Name resolution: the properties *)

Asked == qpath # None

AskedFile == qpath[1].file

DerivedName == derived_name(qpath[1])

Keys == DOMAIN project_map

\* C7 (as claimed): for every Program inserted under name N with root R, a lookup
\* of the file N-keypair.json or N.so returns R; and a keypair or artifact file
\* whose derived name is no key, and folds to no key, resolves to nothing.
C7_LiteralResolution ==
    Asked =>
        /\ \A N \in Keys :
              AskedFile \in {N \o KEYPAIR_SUFFIX, N \o ELF_SUFFIX}
                  => qresult = Some(project_map[N])
        /\ (/\ DerivedName # None
            /\ DerivedName[1] \notin Keys
            /\ ReplaceUnderscores(DerivedName[1]) \notin Keys) => qresult = None

\* C8 (as claimed): when only one form of a name is a key, a lookup by the other
\* form resolves to that key's entry, in both directions: a key with underscores
\* asked for with hyphens, and a key with hyphens asked for with underscores.
C8_FoldedBothWays ==
    (Asked /\ DerivedName # None /\ DerivedName[1] \notin Keys) =>
        \A N \in Keys :
            (/\ \/ ReplaceUnderscores(N) = DerivedName[1]
                \/ ReplaceUnderscores(DerivedName[1]) = N
             /\ \A K \in Keys :
                   ReplaceUnderscores(K) = ReplaceUnderscores(N) => K = N)
                => qresult = Some(project_map[N])

\* C8 (amended): folding goes one way, underscores to hyphens.  A file whose
\* derived name D is no key resolves to the entry of the key equal to D with every
\* "_" replaced by "-"; when that folded name is no key either, nothing
\* is found, so a key holding a "_" is not found through its hyphenated form.
C8_FoldedToKebab ==
    (Asked /\ DerivedName # None /\ DerivedName[1] \notin Keys) =>
        /\ \A N \in Keys :
              ReplaceUnderscores(DerivedName[1]) = N => qresult = Some(project_map[N])
        /\ ReplaceUnderscores(DerivedName[1]) \notin Keys => qresult = None

\* a key without "_" found through a derived name that holds one
C8_Witness ==
    /\ Asked
    /\ DerivedName # None
    /\ DerivedName[1] \notin Keys
    /\ DerivedName[1] # ReplaceUnderscores(DerivedName[1])
    /\ ReplaceUnderscores(DerivedName[1]) \in Keys
    /\ qresult = Some(project_map[ReplaceUnderscores(DerivedName[1])])

----------------------------------------------------------------------------
(* Program identity synchronizer *)

\* the characters the regex class \w matches, among those the model writes
WordChars ==
    {"A", "B", "a", "c", "d", "e", "i", "l", "m", "r", "u", "x", "_"}

IsWord(c) == c \in WordChars

\* the literal text of the two patterns, up to the opening quote
RUST_DECLARE == <<"d", "e", "c", "l", "a", "r", "e", "_", "i", "d", "!", "(">>

SEAHORSE_DECLARE == <<"d", "e", "c", "l", "a", "r", "e", "_", "i", "d", "(">>

PATH_SEP == <<":", ":">>

\* whether the literal `lit` stands in s at position p
LitAt(s, p, lit) ==
    /\ p >= 1
    /\ p + Len(lit) - 1 <= Len(s)
    /\ SubSeq(s, p, p + Len(lit) - 1) = lit

\* the position after the longest run of \w characters that starts at p
RECURSIVE WordRunEnd(_, _)
WordRunEnd(s, p) ==
    IF p <= Len(s) /\ IsWord(s[p]) THEN WordRunEnd(s, p + 1) ELSE p

\* (\w+::)* followed by declare_id!\( : the position of the opening quote's
\* predecessor's end, 0 when the line does not start that way
RECURSIVE RustDeclareEnd(_, _)
RustDeclareEnd(s, p) ==
    IF LitAt(s, p, RUST_DECLARE) THEN p + Len(RUST_DECLARE)
    ELSE LET q == WordRunEnd(s, p)
         IN  IF q > p /\ LitAt(s, q, PATH_SEP)
             THEN RustDeclareEnd(s, q + Len(PATH_SEP))
             ELSE 0

\* update_rust_program_id's pattern tried at position p: capture group 3, as the
\* range [from, to) of the identifier, or None
RustCaptureAt(s, p) ==
    LET q == RustDeclareEnd(s, p)
    IN  IF q = 0 \/ ~LitAt(s, q, <<"\"">>) THEN None
        ELSE LET e == WordRunEnd(s, q + 1)
             IN  IF LitAt(s, e, <<"\"", ")">>)
                 THEN Some([from |-> q + 1, to |-> e])
                 ELSE None

\* update_seahorse_program_id's pattern tried at position p: capture group 2
SeahorseCaptureAt(s, p) ==
    IF ~LitAt(s, p, SEAHORSE_DECLARE) THEN None
    ELSE LET q == p + Len(SEAHORSE_DECLARE)
         IN  IF ~(LitAt(s, q, <<"\"">>) \/ LitAt(s, q, <<"'">>)) THEN None
             ELSE LET e == WordRunEnd(s, q + 1)
                  IN  IF /\ LitAt(s, e, <<"\"">>) \/ LitAt(s, e, <<"'">>)
                         /\ LitAt(s, e + 1, <<")">>)
                      THEN Some([from |-> q + 1, to |-> e])
                      ELSE None

CaptureAt(pattern, s, p) ==
    IF pattern = "rust" THEN RustCaptureAt(s, p) ELSE SeahorseCaptureAt(s, p)

\* multi_line(true): ^ matches at the start of the text and after every "\n"
LineStarts(s) == {1} \cup {i + 1 : i \in {j \in 1..Len(s) : s[j] = "\n"}}

\* Regex::captures: the leftmost match
captures(pattern, s) ==
    LET hits == {p \in LineStarts(s) : CaptureAt(pattern, s, p) # None}
    IN  IF hits = {} THEN None
        ELSE CaptureAt(pattern, s, CHOOSE p \in hits : \A r \in hits : p <= r)

\* a replace_range that also drops the text after the range
replace_range_truncating(content, range, with) ==
    SubSeq(content, 1, range.from - 1) \o with

\* String::replace_range
replace_range(content, range, with) ==
    SubSeq(content, 1, range.from - 1) \o with
        \o SubSeq(content, range.to, Len(content))

\* an update that does not compare the declared value with the target
update_unfiltered(pattern, content, program_id) ==
    LET m == captures(pattern, content)
    IN  IF m # None
        THEN [content |-> replace_range(content, m[1], program_id),
              wrote |-> TRUE, returned |-> TRUE]
        ELSE [content |-> content, wrote |-> FALSE, returned |-> FALSE]

\* update_file_program_id_with, the callback being the pattern's capture: the
\* content of the file afterwards, whether it was written, the value returned
update_file_program_id_with(pattern, content, program_id) ==
    LET m == captures(pattern, content)
    IN  IF m # None /\ SubSeq(content, m[1].from, m[1].to - 1) # program_id
        THEN [content |-> replace_range(content, m[1], program_id),
              wrote |-> TRUE, returned |-> TRUE]
        ELSE [content |-> content, wrote |-> FALSE, returned |-> FALSE]

----------------------------------------------------------------------------
(* Identity sync: the inputs *)

MaxLines == 2

MaxApplications == 2

RustDecl(id) == RUST_DECLARE \o <<"\"">> \o id \o <<"\"", ")">>

\* the lines a source file is made of
SourceLines ==
    { <<>>,
      <<"u", "s", "e", " ", "x", ";">>,
      RustDecl(<<>>),
      RustDecl(<<"A">>) \o <<";">>,
      RustDecl(<<"B">>),
      <<"m", ":", ":", "x", ":", ":">> \o RustDecl(<<"A">>),
      <<" ">> \o RustDecl(<<"A">>),
      RustDecl(<<"A", "-">>),
      SEAHORSE_DECLARE \o <<"'", "A", "'", ")">>,
      SEAHORSE_DECLARE \o <<"\"", "B", "'", ")">> }

RECURSIVE JoinLines(_)
JoinLines(lines) ==
    IF Len(lines) = 0 THEN <<>>
    ELSE IF Len(lines) = 1 THEN lines[1]
    ELSE lines[1] \o <<"\n">> \o JoinLines(Tail(lines))

SourceFiles == {JoinLines(ls) : ls \in SeqsUpTo(SourceLines, MaxLines)}

\* keypair-derived identities: base58 text, all of it \w characters
Identities == {<<>>, <<"A">>, <<"B">>, <<"A", "B">>}

IdInit ==
    /\ project_map = EmptyMap
    /\ qpath = None
    /\ qresult = None
    /\ file_content \in SourceFiles
    /\ id_pattern \in {"rust", "seahorse"}
    /\ updates = <<>>
    /\ src_files = <<>>
    /\ syncs = <<>>
    /\ WatchIdle

\* one identity sync of the file with the keypair-derived identity program_id
IdUpdate(program_id) ==
    /\ Len(updates) < MaxApplications
    /\ LET r == update_file_program_id_with(id_pattern, file_content, program_id)
       IN  /\ file_content' = r.content
           /\ updates' = Append(updates,
                  [target |-> program_id, before |-> file_content,
                   after |-> r.content, wrote |-> r.wrote, returned |-> r.returned])
    /\ UNCHANGED <<project_map, nameVars, id_pattern, syncVars, watchVars>>

IdNext == \E program_id \in Identities : IdUpdate(program_id)

SpecId == IdInit /\ [][IdNext]_vars

----------------------------------------------------------------------------
(* Identity sync: the properties *)

\* C9: applying the identity update twice with the same target X leaves the file
\* after the second application as it was after the first, and the second
\* application returns false and writes nothing.
C9_Idempotent ==
    \A i \in 1..(Len(updates) - 1) :
        updates[i].target = updates[i + 1].target =>
            /\ updates[i + 1].after = updates[i].after
            /\ ~updates[i + 1].returned
            /\ ~updates[i + 1].wrote

\* a first application that rewrote the declaration, then a second with the same
\* target
C9_Witness ==
    /\ Len(updates) >= 2
    /\ updates[1].target = updates[2].target
    /\ updates[1].returned
    /\ updates[1].after # updates[1].before

\* C10: a successful update changes only the range of the first declared
\* identifier captured by the active pattern: the text before it and the text
\* after it are unchanged and the range now holds the target; when the declared
\* value equals the target, or nothing is declared, the file is not written.
C10_Precise ==
    \A i \in 1..Len(updates) :
        LET u == updates[i]
            m == captures(id_pattern, u.before)
            n == Len(u.target)
        IN  /\ u.returned =>
                /\ m # None
                /\ u.wrote
                /\ SubSeq(u.after, 1, m[1].from - 1) = SubSeq(u.before, 1, m[1].from - 1)
                /\ SubSeq(u.after, m[1].from, m[1].from + n - 1) = u.target
                /\ SubSeq(u.after, m[1].from + n, Len(u.after))
                       = SubSeq(u.before, m[1].to, Len(u.before))
                /\ Len(u.after) = Len(u.before) - (m[1].to - m[1].from) + n
            /\ (m = None \/ SubSeq(u.before, m[1].from, m[1].to - 1) = u.target) =>
                /\ ~u.wrote
                /\ ~u.returned
                /\ u.after = u.before
            /\ u.wrote <=> u.returned

\* an update that rewrote a declaration with text before it and text after it, in
\* a file that declares a second identifier further down
C10_Witness ==
    \E i \in 1..Len(updates) :
        LET u == updates[i]
            m == captures(id_pattern, u.before)
        IN  /\ u.returned
            /\ m # None
            /\ m[1].from > Len(RUST_DECLARE) + 2
            /\ \E p \in LineStarts(u.before) :
                  /\ p > m[1].to
                  /\ CaptureAt(id_pattern, u.before, p) # None

----------------------------------------------------------------------------
(* The project on disk and the external commands *)

Frameworks == {"native", "anchor", "seahorse"}

PROGRAMS_PY == "programs_py"

ANCHOR_TOML == "Anchor.toml"

ROOT_CARGO_TOML == "Cargo.toml"

\* the names an entry of the root directory may have
RootNames == {PROGRAMS_PY, ANCHOR_TOML, ROOT_CARGO_TOML, "src"}

\* a detection that looks for the Anchor manifest first
get_framework_anchor_first(item_names) ==
    IF ANCHOR_TOML \in item_names THEN "anchor"
    ELSE IF PROGRAMS_PY \in item_names THEN "seahorse"
    ELSE IF ROOT_CARGO_TOML \in item_names THEN "native"
    ELSE "none"

\* get_framework_from_path: the variant for the entries of the root directory,
\* "none" for the InvalidProgramDirectory error
get_framework_from_path(item_names) ==
    IF PROGRAMS_PY \in item_names THEN "seahorse"
    ELSE IF ANCHOR_TOML \in item_names THEN "anchor"
    ELSE IF ROOT_CARGO_TOML \in item_names THEN "native"
    ELSE "none"

\* the outcome of running an external command: it exits with status zero, it
\* exits with another status, or it cannot be run (an Err from the OS)
Outcomes == {"ok", "fail", "err"}

Origin == [dir |-> "/w", file |-> <<"p", "j">>]

P1 == [dir |-> ProgramsDir, file |-> <<"p", "1">>]

P2 == [dir |-> ProgramsDir, file |-> <<"p", "2">>]

LIB_RS == <<"l", "i", "b", ".", "r", "s">>

CARGO_TOML == <<"C", "a", "r", "g", "o", ".", "t", "o", "m", "l">>

P1LibRs == [dir |-> "/w/pj/programs/p1/src", file |-> LIB_RS]

P1CargoToml == [dir |-> "/w/pj/programs/p1", file |-> CARGO_TOML]

P2LibRs == [dir |-> "/w/pj/programs/p2/src", file |-> LIB_RS]

Notes == [dir |-> "/w/pj", file |-> <<"n", "o", "t", "e", "s", ".", "m", "d">>]

PyAB == [dir |-> "/w/pj/programs_py", file |-> <<"a", "_", "b", ".", "p", "y">>]

PyC == [dir |-> "/w/pj/programs_py", file |-> <<"c", ".", "p", "y">>]

ElfAB == [dir |-> DeployDir, file |-> <<"a", "_", "b">> \o ELF_SUFFIX]

ElfC == [dir |-> DeployDir, file |-> <<"c">> \o ELF_SUFFIX]

KeypairAB == [dir |-> DeployDir, file |-> <<"a", "_", "b">> \o KEYPAIR_SUFFIX]

KeypairZZ == [dir |-> DeployDir, file |-> <<"z", "z">> \o KEYPAIR_SUFFIX]

\* the package names the manifests of the two programs declare
PackageName(program) == IF program = P1 THEN <<"a", "-", "b">> ELSE <<"c">>

\* the paths the watcher may report, per framework
WatchedPaths(f) ==
    IF f = "seahorse"
    THEN {PyAB, PyC, ElfAB, KeypairAB, KeypairZZ, Notes}
    ELSE {P1LibRs, P1CargoToml, P2LibRs, ElfAB, KeypairAB, KeypairZZ, Notes}

\* what `cargo locate-project` run in the directory of the file answers: the
\* directory of the nearest manifest
LocatedProject(path) ==
    IF path.dir \in {"/w/pj/programs/p1/src", "/w/pj/programs/p1"} THEN P1
    ELSE IF path.dir \in {"/w/pj/programs/p2/src", "/w/pj/programs/p2"} THEN P2
    ELSE Origin

\* the orders in which the elements of a set may be visited
Orders(S) ==
    {s \in [1..Cardinality(S) -> S] : \A i, j \in 1..Cardinality(S) : i # j => s[i] # s[j]}

Range(s) == {s[i] : i \in 1..Len(s)}

----------------------------------------------------------------------------
(* Identity sync of a Rust program: find_and_update_program_id over the source
   files of the program's src directory *)

MaxSyncs == 2

STATE_RS == <<"s", "t", "a", "t", "e", ".", "r", "s">>

UTILS_RS == <<"u", "t", "i", "l", "s", ".", "r", "s">>

\* what a source file of the program holds: no declaration, or one
SyncContents ==
    { <<"u", "s", "e", " ", "x", ";">>,
      RustDecl(<<"A">>) \o <<";">>,
      RustDecl(<<"B">>) \o <<";">> }

\* the src directories: lib.rs, when the program has one, and two more files
SrcDirs ==
    UNION {[names -> SyncContents] :
              names \in {{LIB_RS, STATE_RS, UTILS_RS}, {STATE_RS, UTILS_RS}}}

SyncIdentities == {<<"A">>, <<"B">>}

\* get_pubkey_from_keypair_path: `solana address -k <keypair path>` is run; the
\* error it returns is CouldNotGetKeypair when the command exits with a non-zero
\* status and the error of the spawn when the command cannot be run
get_pubkey_from_keypair_path(keypair_path, o) ==
    [op |-> "lookup", path |-> keypair_path, result |-> o,
     error |-> IF o = "ok" THEN "none"
               ELSE IF o = "fail" THEN "CouldNotGetKeypair"
               ELSE "Io"]

\* update_rust_program_id on one file: read_to_string fails on a file that does
\* not exist; else the file is patched when its declaration differs from
\* program_id, and whether it was patched is returned
update_rust_program_id(files, path, program_id) ==
    IF path \notin DOMAIN files
    THEN [files |-> files, err |-> TRUE, updated |-> FALSE]
    ELSE LET r == update_file_program_id_with("rust", files[path], program_id)
         IN  [files |-> [files EXCEPT ![path] = r.content],
              err |-> FALSE, updated |-> r.returned]

\* a loop over the paths glob returned that goes on after a file was updated
RECURSIVE update_all(_, _, _)
update_all(files, rust_src_paths, program_id) ==
    IF rust_src_paths = <<>> THEN files
    ELSE update_all(update_rust_program_id(files, Head(rust_src_paths), program_id).files,
                    Tail(rust_src_paths), program_id)

\* the loop over the paths glob returned: it stops at the first file updated
RECURSIVE update_first(_, _, _)
update_first(files, rust_src_paths, program_id) ==
    IF rust_src_paths = <<>> THEN files
    ELSE LET r == update_rust_program_id(files, Head(rust_src_paths), program_id)
         IN  IF r.updated THEN r.files
             ELSE update_first(r.files, Tail(rust_src_paths), program_id)

\* find_and_update_program_id: the identity lookup of the keypair file (o its
\* outcome, program_id what it prints), then lib.rs, and the files glob finds in
\* src (in the order it finds them) unless lib.rs was updated
find_and_update_program_id(files, program_keypair_path, o, program_id, rust_src_paths) ==
    LET asked == <<get_pubkey_from_keypair_path(program_keypair_path, o)>>
        lib == update_rust_program_id(files, LIB_RS, program_id)
    IN  IF o # "ok" THEN [files |-> files, returned |-> "Err", lookups |-> asked]
        ELSE IF lib.err THEN [files |-> files, returned |-> "Err", lookups |-> asked]
        ELSE IF lib.updated
        THEN [files |-> lib.files, returned |-> "Ok", lookups |-> asked]
        ELSE [files |-> update_first(lib.files, rust_src_paths, program_id),
              returned |-> "Ok", lookups |-> asked]

SyncInit ==
    /\ project_map = EmptyMap
    /\ qpath = None
    /\ qresult = None
    /\ file_content = <<>>
    /\ id_pattern = "rust"
    /\ updates = <<>>
    /\ src_files \in SrcDirs
    /\ syncs = <<>>
    /\ WatchIdle

\* what is recorded of one sync: the identity, the files before and after, what
\* find_and_update_program_id returned and the lookups it ran
sync_record(program_id, before, r) ==
    [target |-> program_id, before |-> before, after |-> r.files,
     returned |-> r.returned, lookups |-> r.lookups]

\* one identity sync of the program: the lookup's outcome is o and, when it
\* succeeds, the keypair-derived identity is program_id
Sync(o, program_id, rust_src_paths) ==
    /\ Len(syncs) < MaxSyncs
    /\ syncs' = Append(syncs,
           sync_record(program_id, src_files,
               find_and_update_program_id(src_files, KeypairAB, o, program_id,
                                          rust_src_paths)))
    /\ src_files' = syncs'[Len(syncs')].after
    /\ UNCHANGED <<project_map, nameVars, file_content, id_pattern, updates, watchVars>>

SyncNext ==
    \E o \in Outcomes, program_id \in SyncIdentities,
       rust_src_paths \in Orders(DOMAIN src_files) :
        Sync(o, program_id, rust_src_paths)

SpecSync == SyncInit /\ [][SyncNext]_vars

----------------------------------------------------------------------------
(* Framework: the commands of the three variants *)

\* a spawn that turns a non-zero exit status into an error
spawn_checking_status(o) == IF o = "ok" THEN "Ok" ELSE "Err"

\* WCommand::spawn: Err only when the child cannot be spawned or waited for; an
\* exit status, zero or not, is Ok(status.success())
spawn(o) == IF o = "err" THEN "Err" ELSE "Ok"

\* get_program_name_from_path (seahorse.rs)
get_program_name_from_path(path) ==
    IF path.file = <<>> THEN None
    ELSE Some(TrimEndMatches(path.file, <<".", "p", "y">>))

\* a build that runs Native's default tool whatever check_toolset stored
build_default_tool(f, bcmd, program_path) ==
    IF f = "native"
    THEN [tool |-> "cargo build-sbf", arg |-> None, cwd |-> Some(program_path)]
    ELSE IF f = "anchor"
    THEN [tool |-> "anchor build", arg |-> None, cwd |-> Some(program_path)]
    ELSE [tool |-> "seahorse build -p",
          arg |-> get_program_name_from_path(program_path), cwd |-> None]

\* Framework::build: the command line, its -p argument and its working directory
build(f, bcmd, program_path) ==
    IF f = "native" THEN [tool |-> bcmd, arg |-> None, cwd |-> Some(program_path)]
    ELSE IF f = "anchor"
    THEN [tool |-> "anchor build", arg |-> None, cwd |-> Some(program_path)]
    ELSE IF get_program_name_from_path(program_path) # None
    THEN [tool |-> "seahorse build -p",
          arg |-> get_program_name_from_path(program_path), cwd |-> None]
    ELSE [tool |-> "seahorse build", arg |-> None, cwd |-> None]

\* a deploy that never names a program
deploy_unscoped(f, map, elf_path) ==
    IF f = "native"
    THEN [tool |-> "solana program deploy", arg |-> Some(elf_path), cwd |-> None]
    ELSE [tool |-> "anchor deploy", arg |-> None, cwd |-> None]

\* Framework::deploy
deploy(f, map, elf_path) ==
    IF f = "native"
    THEN [tool |-> "solana program deploy", arg |-> Some(elf_path), cwd |-> None]
    ELSE LET program_path == get_program_path(map, elf_path)
         IN  IF program_path # None
             THEN [tool |-> "anchor deploy -p", arg |-> Some(program_path[1].file),
                   cwd |-> None]
             ELSE [tool |-> "anchor deploy", arg |-> None, cwd |-> None]

\* an update_program_id that asks for the identity before it looks for the program
update_program_id_lookup_first(map, keypair_path, o) ==
    LET program_path == get_program_path(map, keypair_path)
        asked == <<get_pubkey_from_keypair_path(keypair_path, o)>>
    IN  IF o # "ok" THEN [events |-> asked, err |-> TRUE]
        ELSE IF program_path = None THEN [events |-> asked, err |-> FALSE]
        ELSE [events |-> Append(asked, [op |-> "update_id", path |-> program_path[1],
                                        result |-> "ok"]),
              err |-> FALSE]

\* an update_program_id that patches the source whatever the lookup's exit status
update_program_id_unchecked(map, keypair_path, o) ==
    LET program_path == get_program_path(map, keypair_path)
    IN  IF program_path = None THEN [events |-> <<>>, err |-> FALSE]
        ELSE [events |-> <<get_pubkey_from_keypair_path(keypair_path, o),
                           [op |-> "update_id", path |-> program_path[1], result |-> "ok"]>>,
              err |-> FALSE]

\* Framework::update_program_id on a keypair path: nothing when the path has no
\* program in the map; else the identity lookup and, when it succeeds, the patch
\* of the program's source.  The events and whether an error is returned.
update_program_id(map, keypair_path, o) ==
    LET program_path == get_program_path(map, keypair_path)
    IN  IF program_path = None THEN [events |-> <<>>, err |-> FALSE]
        ELSE IF o = "ok"
        THEN [events |-> <<get_pubkey_from_keypair_path(keypair_path, o),
                           [op |-> "update_id", path |-> program_path[1], result |-> "ok"]>>,
              err |-> FALSE]
        ELSE [events |-> <<get_pubkey_from_keypair_path(keypair_path, o)>>,
              err |-> TRUE]

----------------------------------------------------------------------------
(* WatchableFramework::on_action, one path of the action at a time *)

\* an insert that keeps duplicates
insert_duplicating(paths, program_path) == Append(paths, program_path)

\* HashSet::insert into unique_program_paths
insert_unique(paths, program_path) ==
    IF program_path \in Range(paths) THEN paths ELSE Append(paths, program_path)

\* a first loop that takes only .rs files for sources
classify_default_rs_only(f, map, path, o, unique) ==
    LET ext == Extension(path.file)
    IN  IF ext = Some(RS)
        THEN [events |-> <<[op |-> "locate", path |-> path, result |-> o]>>,
              builds |-> IF o = "ok" THEN insert_unique(unique, LocatedProject(path))
                         ELSE unique,
              err |-> o # "ok"]
        ELSE IF ext = Some(SO)
        THEN [events |-> <<[op |-> "deploy", cmd |-> deploy(f, map, path), result |-> o]>>,
              builds |-> unique,
              err |-> o = "err"]
        ELSE IF ext = Some(JSON)
        THEN LET u == update_program_id(map, path, o)
             IN  [events |-> u.events, builds |-> unique, err |-> u.err]
        ELSE [events |-> <<>>, builds |-> unique, err |-> FALSE]

\* a first loop that goes on when the program of a source file cannot be found
classify_default_lenient(f, map, path, o, unique) ==
    LET ext == Extension(path.file)
    IN  IF ext = Some(RS) \/ ext = Some(TOML)
        THEN [events |-> <<[op |-> "locate", path |-> path, result |-> o]>>,
              builds |-> IF o = "ok" THEN insert_unique(unique, LocatedProject(path))
                         ELSE unique,
              err |-> FALSE]
        ELSE IF ext = Some(SO)
        THEN [events |-> <<[op |-> "deploy", cmd |-> deploy(f, map, path), result |-> o]>>,
              builds |-> unique,
              err |-> spawn(o) = "Err"]
        ELSE IF ext = Some(JSON)
        THEN LET u == update_program_id(map, path, o)
             IN  [events |-> u.events, builds |-> unique, err |-> u.err]
        ELSE [events |-> <<>>, builds |-> unique, err |-> FALSE]

\* a first loop that builds the program of a changed source file at once
classify_default_eager(f, map, path, o, unique) ==
    LET ext == Extension(path.file)
    IN  IF ext = Some(RS) \/ ext = Some(TOML)
        THEN [events |-> IF o = "ok"
                         THEN <<[op |-> "locate", path |-> path, result |-> o],
                                [op |-> "build",
                                 cmd |-> build(f, "cargo build-sbf", LocatedProject(path)),
                                 result |-> "ok"]>>
                         ELSE <<[op |-> "locate", path |-> path, result |-> o]>>,
              builds |-> unique,
              err |-> o # "ok"]
        ELSE IF ext = Some(SO)
        THEN [events |-> <<[op |-> "deploy", cmd |-> deploy(f, map, path), result |-> o]>>,
              builds |-> unique,
              err |-> spawn(o) = "Err"]
        ELSE IF ext = Some(JSON)
        THEN LET u == update_program_id(map, path, o)
             IN  [events |-> u.events, builds |-> unique, err |-> u.err]
        ELSE [events |-> <<>>, builds |-> unique, err |-> FALSE]

\* the body of the default on_action's first loop for one path; o is the outcome
\* of the command run for it.  The events, the build set and whether the `?`
\* returns an error.
classify_default(f, map, path, o, unique) ==
    LET ext == Extension(path.file)
    IN  IF ext = Some(RS) \/ ext = Some(TOML)
        THEN [events |-> <<[op |-> "locate", path |-> path, result |-> o]>>,
              builds |-> IF o = "ok" THEN insert_unique(unique, LocatedProject(path))
                         ELSE unique,
              err |-> o # "ok"]
        ELSE IF ext = Some(SO)
        THEN [events |-> <<[op |-> "deploy", cmd |-> deploy(f, map, path), result |-> o]>>,
              builds |-> unique,
              err |-> spawn(o) = "Err"]
        ELSE IF ext = Some(JSON)
        THEN LET u == update_program_id(map, path, o)
             IN  [events |-> u.events, builds |-> unique, err |-> u.err]
        ELSE [events |-> <<>>, builds |-> unique, err |-> FALSE]

\* the body of Seahorse's on_action loop for one path: a build per .py file
classify_seahorse(f, map, bcmd, path, o, unique) ==
    LET ext == Extension(path.file)
    IN  IF ext = Some(PY)
        THEN [events |-> <<[op |-> "build", cmd |-> build(f, bcmd, path), result |-> o]>>,
              builds |-> unique,
              err |-> spawn(o) = "Err"]
        ELSE IF ext = Some(SO)
        THEN [events |-> <<[op |-> "deploy", cmd |-> deploy(f, map, path), result |-> o]>>,
              builds |-> unique,
              err |-> spawn(o) = "Err"]
        ELSE IF ext = Some(JSON)
        THEN LET u == update_program_id(map, path, o)
             IN  [events |-> u.events, builds |-> unique, err |-> u.err]
        ELSE [events |-> <<>>, builds |-> unique, err |-> FALSE]

classify(f, map, bcmd, path, o, unique) ==
    IF f = "seahorse" THEN classify_seahorse(f, map, bcmd, path, o, unique)
    ELSE classify_default(f, map, path, o, unique)

----------------------------------------------------------------------------
(* WAction and the top level action handler *)

Signals == {"Interrupt", "Terminate", "Hangup"}

\* WAction::is_any_signal
is_any_signal(action, signal) == \E i \in 1..Len(action) : signal \in action[i].signals

\* WAction::is_interrupt
is_interrupt(action) == is_any_signal(action, "Interrupt")

\* WAction::is_terminate
is_terminate(action) == is_any_signal(action, "Terminate")

\* the paths of the last notification of the action only
get_last_event_paths(action) ==
    IF action = <<>> THEN {} ELSE action[Len(action)].paths

\* WAction::get_unique_paths: the paths of every event, collected in a HashSet
get_unique_paths(action) == UNION {action[i].paths : i \in 1..Len(action)}

\* a test that looks for the interrupt signal only
stops_on_interrupt_only(action) == is_interrupt(action)

\* a test that looks for the terminate signal only
stops_on_terminate_only(action) == is_terminate(action)

\* the test the top level handler makes before anything else
stops_watching(action) == is_interrupt(action) \/ is_terminate(action)

\* a handler that returns the framework's error
returned_propagating(framework_err) == IF framework_err THEN "err" ELSE "ok"

\* what the top level handler returns once the framework's on_action has
\* returned: the error is printed, Ok(()) is returned
returned(framework_err) == "ok"

----------------------------------------------------------------------------
(* The watch loop *)

MaxEvents == 3

\* one notification: a change of one path, or one signal
EventChoices(f) ==
    {[paths |-> {p}, signals |-> {}] : p \in WatchedPaths(f)}
        \cup {[paths |-> {}, signals |-> {s}] : s \in Signals}

\* Framework::map_program_names over the programs found on disk
RECURSIVE map_program_names(_, _, _)
map_program_names(f, found, map) ==
    IF found = {} THEN map
    ELSE LET p == CHOOSE x \in found : TRUE
             name == IF f = "seahorse" THEN get_program_name_from_path(p)[1]
                     ELSE PackageName(p)
         IN  map_program_names(f, found \ {p}, set_program_path(map, name, p))

\* the programs name mapping may find on disk
ProgramSets(f) ==
    IF f = "seahorse" THEN {{PyAB, PyC}, {PyC}} ELSE {{P1, P2}, {P2}}

BUILD_SBF == "cargo build-sbf"

BUILD_BPF == "cargo build-bpf"

\* Progress::spinner_with: the message shown once the callback has returned
spinner_with(stage, is_ok) ==
    [stage |-> stage, kind |-> IF is_ok THEN "success" ELSE "error"]

\* Progress::progress_with: the message shown once every item has been visited;
\* a callback that returns an error leaves the function before any message
progress_with(stage) == [stage |-> stage, kind |-> "success"]

NoBatch ==
    /\ pending = <<>>
    /\ batch_paths = {}
    /\ batch_signals = {}
    /\ batch_repeats = {}
    /\ todo = {}
    /\ builds = <<>>
    /\ builds_todo = {}
    /\ issued = <<>>
    /\ called = FALSE
    /\ logged = FALSE
    /\ prev_logged = FALSE
    /\ result = "none"
    /\ outcome = "none"
    /\ running = {}

\* the state in which watching starts: initialize has returned Ok
WatchInit ==
    /\ fw \in Frameworks
    /\ programs \in ProgramSets(fw)
    /\ project_map = map_program_names(fw, programs, EmptyMap)
    /\ build_cmd \in IF fw = "native" THEN {BUILD_SBF, BUILD_BPF} ELSE {BUILD_SBF}
    /\ pc = "watching"
    /\ NoBatch
    /\ installed = {build_cmd}
    /\ manifest_ok = TRUE
    /\ deploy_exists = TRUE
    /\ keypair_paths = {}
    /\ elf_paths = {}
    /\ failed_at = "none"
    /\ root_entries = IF fw = "seahorse" THEN {PROGRAMS_PY}
                      ELSE IF fw = "anchor" THEN {ANCHOR_TOML, ROOT_CARGO_TOML}
                      ELSE {ROOT_CARGO_TOML}
    /\ shown = {spinner_with("start_validator", TRUE), progress_with("update_ids"),
                progress_with("build_all"), progress_with("deploy_all")}
    /\ qpath = None
    /\ qresult = None
    /\ IdIdle

\* the watcher gathers a notification for the next action (action_throttle); the
\* record of the action handled before is dropped when the first one arrives
Notify(event) ==
    /\ pc = "watching"
    /\ Len(pending) < MaxEvents
    /\ pending' = Append(pending, event)
    /\ batch_paths' = {}
    /\ batch_signals' = {}
    /\ batch_repeats' = {}
    /\ todo' = {}
    /\ builds' = <<>>
    /\ builds_todo' = {}
    /\ issued' = <<>>
    /\ called' = FALSE
    /\ logged' = FALSE
    /\ prev_logged' = IF pending = <<>> THEN logged ELSE prev_logged
    /\ result' = "none"
    /\ outcome' = "none"
    /\ UNCHANGED <<fw, programs, project_map, build_cmd, pc, running, nameVars, idVars,
                   initVars>>

\* the top level handler takes the action: a control signal stops the loop, else
\* the framework's on_action starts on the unique paths of the action
Receive ==
    /\ pc = "watching"
    /\ pending # <<>>
    /\ pending' = <<>>
    /\ batch_paths' = get_unique_paths(pending)
    /\ batch_signals' = UNION {pending[i].signals : i \in 1..Len(pending)}
    /\ batch_repeats' = {p \in UNION {pending[i].paths : i \in 1..Len(pending)} :
                            \E i, j \in 1..Len(pending) :
                                i # j /\ p \in pending[i].paths \cap pending[j].paths}
    /\ IF stops_watching(pending)
       THEN /\ outcome' = "stop_exit"
            /\ called' = FALSE
            /\ todo' = {}
            /\ result' = "ok"
            /\ pc' = "exited"
       ELSE /\ outcome' = "none"
            /\ called' = TRUE
            /\ todo' = get_unique_paths(pending)
            /\ result' = "none"
            /\ pc' = "classify"
    /\ UNCHANGED <<fw, programs, project_map, build_cmd, builds, builds_todo, issued,
                   logged, prev_logged, running, nameVars, idVars, initVars>>

\* a lookup that remembers under the file's own name the program it found under
\* the folded name
after_get_program_path_caching(map, path) ==
    IF derived_name(path) # None /\ get_program_path(map, path) # None
    THEN set_program_path(map, derived_name(path)[1], get_program_path(map, path)[1])
    ELSE map

\* ProjectMap::get_program_path holds the read lock only: the map after a lookup
\* is the map before it
after_get_program_path(map, path) == map

\* a spawn that returns without waiting for the child to exit
after_spawn_detached(resume) == resume

\* WCommand::spawn: the child is spawned and waited for; the caller resumes only
\* when the child has exited
after_spawn(resume) == "await_build"

\* the framework returns an error: the handler prints it and returns
Abandon ==
    /\ logged' = TRUE
    /\ result' = returned(TRUE)
    /\ pc' = "watching"

\* one iteration of the first loop, on any path not yet visited
Classify(path, o) ==
    /\ pc = "classify"
    /\ path \in todo
    /\ LET c == classify(fw, project_map, build_cmd, path, o, builds)
       IN  /\ issued' = issued \o c.events
           /\ builds' = c.builds
           /\ todo' = todo \ {path}
           /\ IF c.err
              THEN /\ Abandon
                   /\ builds_todo' = {}
                   /\ UNCHANGED running
              ELSE /\ LET resume == IF todo = {path} THEN "build" ELSE "classify"
                          spawned == {c.events[i].cmd : i \in {j \in 1..Len(c.events) :
                                                              c.events[j].op = "build"}}
                      IN  /\ running' = running \cup spawned
                          /\ pc' = IF spawned = {} THEN resume ELSE after_spawn(resume)
                   /\ builds_todo' = 1..Len(c.builds)
                   /\ UNCHANGED <<logged, result>>
    /\ project_map' = IF Extension(path.file) \in {Some(SO), Some(JSON)}
                      THEN after_get_program_path(project_map, path)
                      ELSE project_map
    /\ UNCHANGED <<fw, programs, build_cmd, pending, batch_paths, batch_signals,
                   batch_repeats, called, prev_logged, outcome,
                   nameVars, idVars, initVars>>

\* an action without paths: the first loop has nothing to visit
ClassifyNothing ==
    /\ pc = "classify"
    /\ todo = {}
    /\ pc' = "build"
    /\ UNCHANGED <<fw, programs, project_map, build_cmd, pending, batch_paths, batch_signals,
                   batch_repeats, todo, builds, builds_todo, issued,
                   called, logged, prev_logged,
                   result, outcome, running, nameVars, idVars, initVars>>

\* one iteration of the second loop: the build of a program of the build set is
\* spawned and awaited
Build(i, o) ==
    /\ pc = "build"
    /\ i \in builds_todo
    /\ issued' = Append(issued,
           [op |-> "build", cmd |-> build(fw, build_cmd, builds[i]), result |-> o])
    /\ builds_todo' = builds_todo \ {i}
    /\ IF spawn(o) = "Err"
       THEN Abandon /\ UNCHANGED running
       ELSE /\ running' = running \cup {build(fw, build_cmd, builds[i])}
            /\ pc' = after_spawn("build")
            /\ UNCHANGED <<logged, result>>
    /\ UNCHANGED <<fw, programs, project_map, build_cmd, pending, batch_paths, batch_signals,
                   batch_repeats, todo, builds, called, prev_logged,
                   outcome, nameVars, idVars, initVars>>

\* a running build exits; the loop that waits for it resumes
ChildExit(cmd) ==
    /\ cmd \in running
    /\ running' = running \ {cmd}
    /\ pc' = IF pc # "await_build" THEN pc
             ELSE IF fw = "seahorse" /\ todo # {} THEN "classify"
             ELSE "build"
    /\ UNCHANGED <<fw, programs, project_map, build_cmd, pending, batch_paths, batch_signals,
                   batch_repeats, todo, builds, builds_todo, issued,
                   called, logged, prev_logged,
                   result, outcome, nameVars, idVars, initVars>>

\* the framework's on_action returns Ok and so does the handler
Handled ==
    /\ pc = "build"
    /\ builds_todo = {}
    /\ result' = returned(FALSE)
    /\ pc' = "watching"
    /\ UNCHANGED <<fw, programs, project_map, build_cmd, pending, batch_paths, batch_signals,
                   batch_repeats, todo, builds, builds_todo, issued,
                   called, logged, prev_logged,
                   outcome, running, nameVars, idVars, initVars>>

\* the commands a build may be run as
BuildCommands ==
    {build(f, bcmd, p) : f \in Frameworks, bcmd \in {BUILD_SBF, BUILD_BPF},
                         p \in {P1, P2, Origin, PyAB, PyC}}

WatchNext ==
    \/ \E event \in EventChoices(fw) : Notify(event)
    \/ Receive
    \/ \E path \in WatchedPaths(fw), o \in Outcomes : Classify(path, o)
    \/ ClassifyNothing
    \/ \E i \in 1..MaxEvents, o \in Outcomes : Build(i, o)
    \/ \E cmd \in BuildCommands : ChildExit(cmd)
    \/ Handled

SpecWatch == WatchInit /\ [][WatchNext]_vars

----------------------------------------------------------------------------
(* Framework::initialize, stage by stage *)

\* the tools check_toolset probes, per framework
ToolsOf(f) ==
    IF f = "native" THEN {BUILD_SBF, BUILD_BPF}
    ELSE IF f = "anchor" THEN {"anchor"}
    ELSE {"seahorse"}

\* WCommand::exists: `<cmd> --version` runs and exits with status zero
exists(cmd) == cmd \in installed

Probe(cmd) == [op |-> "probe", tool |-> cmd, result |-> IF exists(cmd) THEN "ok" ELSE "fail"]

\* a check_toolset that returns Ok whatever the probes say
check_toolset_unchecked(f) ==
    [events |-> <<Probe(CHOOSE t \in ToolsOf(f) : TRUE)>>, ok |-> TRUE, cmd |-> build_cmd]

\* a check_toolset whose Native probes start with cargo build-bpf
check_toolset_bpf_first(f) ==
    IF f = "native"
    THEN IF exists(BUILD_BPF)
         THEN [events |-> <<Probe(BUILD_BPF)>>, ok |-> TRUE, cmd |-> BUILD_BPF]
         ELSE IF exists(BUILD_SBF)
         THEN [events |-> <<Probe(BUILD_BPF), Probe(BUILD_SBF)>>, ok |-> TRUE,
               cmd |-> BUILD_SBF]
         ELSE [events |-> <<Probe(BUILD_BPF), Probe(BUILD_SBF)>>, ok |-> FALSE,
               cmd |-> build_cmd]
    ELSE [events |-> <<Probe(CHOOSE t \in ToolsOf(f) : TRUE)>>,
          ok |-> exists(CHOOSE t \in ToolsOf(f) : TRUE), cmd |-> build_cmd]

\* check_toolset: the probes made, whether it returns Ok, and the build command
\* Native stores (get_bpf_or_sbf)
check_toolset(f) ==
    IF f = "native"
    THEN IF exists(BUILD_SBF)
         THEN [events |-> <<Probe(BUILD_SBF)>>, ok |-> TRUE, cmd |-> BUILD_SBF]
         ELSE IF exists(BUILD_BPF)
         THEN [events |-> <<Probe(BUILD_SBF), Probe(BUILD_BPF)>>, ok |-> TRUE,
               cmd |-> BUILD_BPF]
         ELSE [events |-> <<Probe(BUILD_SBF), Probe(BUILD_BPF)>>, ok |-> FALSE,
               cmd |-> build_cmd]
    ELSE [events |-> <<Probe(CHOOSE t \in ToolsOf(f) : TRUE)>>,
          ok |-> exists(CHOOSE t \in ToolsOf(f) : TRUE), cmd |-> build_cmd]

\* the files of target/deploy once a build has made it
DeployEntries ==
    {KeypairAB, KeypairZZ, ElfAB, ElfC,
     [dir |-> DeployDir, file |-> <<"a", "_", "b", ".", "d">>]}

\* the order in which the stages of initialize follow each other with builds
\* after deploys
next_stage_deploy_first(stage) ==
    CASE stage = "check_toolset" -> "map_program_names"
      [] stage = "map_program_names" -> "start_validator"
      [] stage = "start_validator" -> "bootstrap"
      [] stage = "bootstrap" -> "enumerate"
      [] stage = "enumerate" -> "update_ids"
      [] stage = "update_ids" -> "deploy_all"
      [] stage = "deploy_all" -> "build_all"
      [] stage = "build_all" -> "watching"

\* the order in which the stages of initialize follow each other; after the
\* last, initialize returns Ok and watch goes on to run the loop
next_stage(stage) ==
    CASE stage = "check_toolset" -> "map_program_names"
      [] stage = "map_program_names" -> "start_validator"
      [] stage = "start_validator" -> "bootstrap"
      [] stage = "bootstrap" -> "enumerate"
      [] stage = "enumerate" -> "update_ids"
      [] stage = "update_ids" -> "build_all"
      [] stage = "build_all" -> "deploy_all"
      [] stage = "deploy_all" -> "watching"

\* the unique build paths: every keypair and artifact path resolved through the
\* map, each program kept once
RECURSIVE unique_build_paths(_, _, _)
unique_build_paths(map, paths, acc) ==
    IF paths = <<>> THEN acc
    ELSE LET program_path == get_program_path(map, Head(paths))
         IN  unique_build_paths(map, Tail(paths),
                 IF program_path = None THEN acc
                 ELSE insert_unique(acc, program_path[1]))

\* some order of the elements of a set
RECURSIVE SeqOf(_)
SeqOf(S) ==
    IF S = {} THEN <<>>
    ELSE LET x == CHOOSE y \in S : TRUE IN <<x>> \o SeqOf(S \ {x})

\* initialize starts in a project directory of one of the frameworks
InitInit ==
    /\ root_entries \in SUBSET RootNames
    /\ fw = "none"
    /\ LET f == get_framework_from_path(root_entries)
       IN  /\ programs \in IF f \in Frameworks THEN ProgramSets(f) ELSE {{}}
           /\ installed \in IF f \in Frameworks THEN SUBSET ToolsOf(f) ELSE {{}}
    /\ manifest_ok \in BOOLEAN
    /\ deploy_exists \in BOOLEAN
    /\ project_map = EmptyMap
    /\ build_cmd = BUILD_SBF
    /\ pc = "detect"
    /\ keypair_paths = {}
    /\ elf_paths = {}
    /\ failed_at = "none"
    /\ shown = {}
    /\ NoBatch
    /\ qpath = None
    /\ qresult = None
    /\ IdIdle

\* the `?` after a stage: initialize returns the error and watch returns it
Fails ==
    /\ failed_at' = pc
    /\ result' = "err"
    /\ pc' = "failed"

\* the next stage starts, on the items it iterates over
Enters(stage, keypairs, elfs, build_paths) ==
    /\ pc' = stage
    /\ result' = IF stage = "watching" THEN "ok" ELSE "none"
    /\ todo' = IF stage = "update_ids" THEN keypairs
               ELSE IF stage = "deploy_all" THEN elfs
               ELSE {}
    /\ builds_todo' = IF stage = "build_all" THEN 1..Len(build_paths) ELSE {}
    /\ UNCHANGED failed_at

\* main: the framework is detected from the entries of the current directory;
\* an error is returned before watch, and so initialize, is called
Detect ==
    /\ pc = "detect"
    /\ fw' = get_framework_from_path(root_entries)
    /\ IF fw' \in Frameworks
       THEN /\ pc' = "check_toolset"
            /\ UNCHANGED <<result, failed_at>>
       ELSE Fails
    /\ UNCHANGED <<programs, project_map, build_cmd, pending, batch_paths, batch_signals,
                   batch_repeats, todo, builds, builds_todo, issued,
                   called, logged, prev_logged,
                   outcome, installed, manifest_ok, deploy_exists, keypair_paths,
                   elf_paths, root_entries, running, shown, nameVars,
                   idVars>>

CheckToolset ==
    /\ pc = "check_toolset"
    /\ LET c == check_toolset(fw)
       IN  /\ issued' = issued \o c.events
           /\ build_cmd' = c.cmd
           /\ IF c.ok
              THEN Enters(next_stage(pc), keypair_paths, elf_paths, builds)
              ELSE Fails /\ UNCHANGED <<todo, builds_todo>>
    /\ UNCHANGED <<fw, programs, project_map, pending, batch_paths, batch_signals,
                   batch_repeats, builds, called, logged, prev_logged,
                   outcome, installed,
                   manifest_ok, deploy_exists, keypair_paths, elf_paths,
                   root_entries, running, shown, nameVars,
                   idVars>>

\* map_program_names: Native and Anchor read the manifest of the root first
MapProgramNames ==
    /\ pc = "map_program_names"
    /\ IF fw = "seahorse" \/ manifest_ok
       THEN /\ project_map' = map_program_names(fw, programs, project_map)
            /\ issued' = Append(issued, [op |-> "map", result |-> "ok"])
            /\ Enters(next_stage(pc), keypair_paths, elf_paths, builds)
       ELSE /\ issued' = Append(issued, [op |-> "map", result |-> "err"])
            /\ Fails
            /\ UNCHANGED <<project_map, todo, builds_todo>>
    /\ UNCHANGED <<fw, programs, build_cmd, pending, batch_paths, batch_signals,
                   batch_repeats, builds, called, logged, prev_logged,
                   outcome, installed,
                   manifest_ok, deploy_exists, keypair_paths, elf_paths,
                   root_entries, running, shown, nameVars,
                   idVars>>

\* a validator start that awaits the command and returns its failure
start_test_validator_awaited(o) == IF o = "ok" THEN "Ok" ELSE "Err"

\* start_test_validator: the command is spawned in a task of its own whose
\* result is dropped; after the sleep it returns Ok whatever became of the command
\* (o: running, exited with an error, could not be spawned)
start_test_validator(o) == "Ok"

\* the spinner over start_test_validator: the stage shows its message and goes on
\* or fails with what start_test_validator returned
StartValidator(o) ==
    /\ pc = "start_validator"
    /\ issued' = Append(issued, [op |-> "validator", result |-> o])
    /\ shown' = shown \cup {spinner_with(pc, start_test_validator(o) = "Ok")}
    /\ IF start_test_validator(o) = "Ok"
       THEN Enters(next_stage(pc), keypair_paths, elf_paths, builds)
       ELSE Fails /\ UNCHANGED <<todo, builds_todo>>
    /\ UNCHANGED <<fw, programs, project_map, build_cmd, pending, batch_paths,
                   batch_signals, batch_repeats, builds, called, logged, prev_logged, outcome,
                   installed, manifest_ok, deploy_exists, keypair_paths, elf_paths,
                   root_entries, running, nameVars,
                   idVars>>

\* the build of the whole project when target/deploy does not exist; a build
\* that exits with status zero has made the directory
Bootstrap(o, made) ==
    /\ pc = "bootstrap"
    /\ IF deploy_exists
       THEN /\ o = "ok"
            /\ made
            /\ Enters(next_stage(pc), keypair_paths, elf_paths, builds)
            /\ UNCHANGED <<issued, deploy_exists, shown>>
       ELSE /\ issued' = Append(issued,
                   [op |-> "bootstrap_build", cmd |-> build(fw, build_cmd, Origin),
                    result |-> o])
            /\ (o = "ok") => made
            /\ (o = "err") => ~made
            /\ deploy_exists' = made
            /\ shown' = shown \cup {spinner_with(pc, o # "err")}
            /\ IF o = "err" THEN Fails /\ UNCHANGED <<todo, builds_todo>>
               ELSE Enters(next_stage(pc), keypair_paths, elf_paths, builds)
    /\ UNCHANGED <<fw, programs, project_map, build_cmd, pending, batch_paths,
                   batch_signals, batch_repeats, builds, called, logged, prev_logged, outcome,
                   installed, manifest_ok, keypair_paths, elf_paths, root_entries,
                   running, nameVars,
                   idVars>>

\* read_dir of target/deploy, the keypair and artifact paths by extension, and
\* the unique build paths
Enumerate ==
    /\ pc = "enumerate"
    /\ IF deploy_exists
       THEN LET keypairs == {p \in DeployEntries : Extension(p.file) = Some(JSON)}
                elfs == {p \in DeployEntries : Extension(p.file) = Some(SO)}
                build_paths ==
                    unique_build_paths(project_map, SeqOf(keypairs) \o SeqOf(elfs), <<>>)
            IN  /\ keypair_paths' = keypairs
                /\ elf_paths' = elfs
                /\ builds' = build_paths
                /\ issued' = Append(issued, [op |-> "read_dir", result |-> "ok"])
                /\ Enters(next_stage(pc), keypairs, elfs, build_paths)
       ELSE /\ issued' = Append(issued, [op |-> "read_dir", result |-> "err"])
            /\ Fails
            /\ UNCHANGED <<keypair_paths, elf_paths, builds, todo, builds_todo>>
    /\ UNCHANGED <<fw, programs, project_map, build_cmd, pending, batch_paths,
                   batch_signals, batch_repeats, called, logged, prev_logged, outcome, installed,
                   manifest_ok, deploy_exists, root_entries, running, shown, nameVars,
                   idVars>>

\* progress_with over the keypair paths: update_program_id of one of them
UpdateId(path, o) ==
    /\ pc = "update_ids"
    /\ path \in todo
    /\ LET u == update_program_id(project_map, path, o)
       IN  /\ issued' = issued \o u.events
           /\ todo' = todo \ {path}
           /\ IF u.err THEN Fails ELSE UNCHANGED <<pc, result, failed_at>>
    /\ UNCHANGED <<fw, programs, project_map, build_cmd, pending, batch_paths,
                   batch_signals, batch_repeats, builds, builds_todo, called, logged, prev_logged,
                   outcome, installed, manifest_ok, deploy_exists, keypair_paths,
                   elf_paths, root_entries, running, shown, nameVars,
                   idVars>>

\* progress_with over the unique build paths: one build, awaited
BuildOne(i, o) ==
    /\ pc = "build_all"
    /\ i \in builds_todo
    /\ issued' = Append(issued,
           [op |-> "build", cmd |-> build(fw, build_cmd, builds[i]), result |-> o])
    /\ builds_todo' = builds_todo \ {i}
    /\ IF o = "err" THEN Fails ELSE UNCHANGED <<pc, result, failed_at>>
    /\ UNCHANGED <<fw, programs, project_map, build_cmd, pending, batch_paths,
                   batch_signals, batch_repeats, todo, builds, called, logged, prev_logged, outcome,
                   installed, manifest_ok, deploy_exists, keypair_paths, elf_paths,
                   root_entries, running, shown, nameVars,
                   idVars>>

\* progress_with over the artifact paths: one deploy, awaited
DeployOne(path, o) ==
    /\ pc = "deploy_all"
    /\ path \in todo
    /\ issued' = Append(issued,
           [op |-> "deploy", cmd |-> deploy(fw, project_map, path), result |-> o])
    /\ todo' = todo \ {path}
    /\ IF o = "err" THEN Fails ELSE UNCHANGED <<pc, result, failed_at>>
    /\ UNCHANGED <<fw, programs, project_map, build_cmd, pending, batch_paths,
                   batch_signals, batch_repeats, builds, builds_todo, called, logged, prev_logged,
                   outcome, installed, manifest_ok, deploy_exists, keypair_paths,
                   elf_paths, root_entries, running, shown, nameVars,
                   idVars>>

\* a progress_with has run its callback on every item and returns Ok
StageDone ==
    /\ pc \in {"update_ids", "build_all", "deploy_all"}
    /\ todo = {}
    /\ builds_todo = {}
    /\ shown' = shown \cup {progress_with(pc)}
    /\ Enters(next_stage(pc), keypair_paths, elf_paths, builds)
    /\ UNCHANGED <<fw, programs, project_map, build_cmd, pending, batch_paths,
                   batch_signals, batch_repeats, builds, issued, called, logged, prev_logged,
                   outcome, installed, manifest_ok, deploy_exists, keypair_paths,
                   elf_paths, root_entries, running, nameVars,
                   idVars>>

InitNext ==
    \/ Detect
    \/ CheckToolset
    \/ MapProgramNames
    \/ \E o \in Outcomes : StartValidator(o)
    \/ \E o \in Outcomes, made \in BOOLEAN : Bootstrap(o, made)
    \/ Enumerate
    \/ \E path \in DeployEntries, o \in Outcomes : UpdateId(path, o)
    \/ \E i \in 1..Cardinality(DeployEntries), o \in Outcomes : BuildOne(i, o)
    \/ \E path \in DeployEntries, o \in Outcomes : DeployOne(path, o)
    \/ StageDone

SpecInit == InitInit /\ [][InitNext]_vars

----------------------------------------------------------------------------
(* initialize: the properties *)

\* the stage of initialize an operation of the log belongs to
StageOf(e) ==
    CASE e.op = "probe" -> 1
      [] e.op = "map" -> 2
      [] e.op = "validator" -> 3
      [] e.op = "bootstrap_build" -> 4
      [] e.op = "read_dir" -> 5
      [] e.op \in {"lookup", "update_id"} -> 6
      [] e.op = "build" -> 7
      [] e.op = "deploy" -> 8

OpsIssued == {issued[i].op : i \in 1..Len(issued)}

\* no tool the framework's check_toolset accepts can be found
ToolsetMissing == fw \in Frameworks /\ installed \cap ToolsOf(fw) = {}

\* C4: only stage 1 of initialize is fatal: when initialize has returned an
\* error, the error is that of check_toolset; a failure of any later stage is
\* reported and initialize goes on to return success.
C4_OnlyToolsetFatal ==
    (pc = "failed") => (failed_at \in {"detect", "check_toolset"})

\* C12: detection is a fixed precedence over the entries of the root directory:
\* Seahorse when programs_py is there, whatever else is; else Anchor when
\* Anchor.toml is there; else Native when Cargo.toml is there; else detection
\* fails and neither initialize nor watching starts.
C12_DetectionPrecedence ==
    (pc # "detect")
        => /\ (PROGRAMS_PY \in root_entries) => (fw = "seahorse")
           /\ (PROGRAMS_PY \notin root_entries /\ ANCHOR_TOML \in root_entries)
                  => (fw = "anchor")
           /\ (root_entries \cap {PROGRAMS_PY, ANCHOR_TOML} = {}
                   /\ ROOT_CARGO_TOML \in root_entries)
                  => (fw = "native")
           /\ (root_entries \cap {PROGRAMS_PY, ANCHOR_TOML, ROOT_CARGO_TOML} = {})
                  => /\ fw = "none"
                     /\ pc = "failed"
                     /\ failed_at = "detect"
                     /\ issued = <<>>
                     /\ project_map = EmptyMap

\* Seahorse was detected next to both manifests and its toolset check has run.
C12_Witness ==
    /\ {PROGRAMS_PY, ANCHOR_TOML, ROOT_CARGO_TOML} \subseteq root_entries
    /\ fw = "seahorse"
    /\ issued # <<>>

\* the --version probes made so far, in order
Probes ==
    LET IsProbe(e) == e.op = "probe" IN SelectSeq(issued, IsProbe)

\* C13: Native's toolset check probes cargo build-sbf first and selects it when
\* its probe exits with zero, without probing further; else it probes cargo
\* build-bpf and selects that when its probe exits with zero; it fails with
\* CommandNotFound exactly when both probes fail.
C13_NativeProbeOrder ==
    (fw = "native" /\ pc \notin {"detect", "check_toolset"})
        => /\ Len(Probes) >= 1
           /\ Probes[1].tool = BUILD_SBF
           /\ IF BUILD_SBF \in installed
              THEN /\ Len(Probes) = 1
                   /\ build_cmd = BUILD_SBF
                   /\ failed_at # "check_toolset"
              ELSE /\ Len(Probes) = 2
                   /\ Probes[2].tool = BUILD_BPF
                   /\ IF BUILD_BPF \in installed
                      THEN build_cmd = BUILD_BPF /\ failed_at # "check_toolset"
                      ELSE failed_at = "check_toolset"

\* only cargo build-bpf is installed: the second probe selected it.
C13_Witness ==
    /\ fw = "native"
    /\ installed = {BUILD_BPF}
    /\ build_cmd = BUILD_BPF
    /\ Len(Probes) = 2
    /\ pc = "map_program_names"

\* C14: a keypair file with no Program entry in the Project Map triggers no
\* identity lookup, no read or write of a source file and no error: the step of
\* the identity-sync stage that visits it issues nothing and the stage goes on.
C14_UnmappedKeypairIgnored ==
    [][(pc = "update_ids" /\ todo' # todo)
          => \A path \in todo \ todo' :
                (get_program_path(project_map, path) = None)
                    => /\ issued' = issued
                       /\ pc' = "update_ids"
                       /\ failed_at' = "none"]_vars

\* Seahorse's identity-sync stage has visited a keypair file without a program,
\* and nothing else yet.
C14_Witness ==
    /\ fw = "seahorse"
    /\ pc = "update_ids"
    /\ KeypairZZ \in keypair_paths \ todo
    /\ KeypairAB \in todo
    /\ get_program_path(project_map, KeypairAB) # None

\* the positions of issued' the step being taken has appended
Appended == (Len(issued) + 1)..Len(issued')

IsBuild(e) == e.op \in {"build", "bootstrap_build"}

\* C18: Native's build tool is written once, by check_toolset, and every build
\* command Native issues afterwards runs the tool check_toolset selected: the
\* stored tool changes in no other step, and each build issued runs the stored
\* tool, one whose probe succeeded.
C18_BuildToolWriteOnce ==
    [][/\ (build_cmd' # build_cmd) => (pc = "check_toolset" /\ fw = "native")
       /\ (fw = "native")
             => \A i \in Appended :
                   IsBuild(issued'[i])
                       => /\ issued'[i].cmd.tool = build_cmd
                          /\ build_cmd' = build_cmd
                          /\ build_cmd \in installed]_vars

\* Native selected cargo build-bpf, and the bootstrap build and the builds of
\* initialize ran it.
C18_Witness ==
    /\ fw = "native"
    /\ build_cmd = BUILD_BPF
    /\ pc = "watching"
    /\ \E i, j \in 1..Len(issued) :
          /\ issued[i].op = "bootstrap_build"
          /\ issued[j].op = "build"
          /\ issued[i].cmd.tool = BUILD_BPF
          /\ issued[j].cmd.tool = BUILD_BPF

\* C19: initialize performs exactly one build of the project root when
\* target/deploy does not exist at that point and none when it exists, and a
\* failure of that build does not abort initialize.
C19_BootstrapBuild ==
    [][(pc = "bootstrap")
          => /\ Cardinality({i \in Appended : issued'[i].op = "bootstrap_build"})
                  = IF deploy_exists THEN 0 ELSE 1
             /\ \A i \in Appended : issued'[i].cmd = build(fw, build_cmd, Origin)
             /\ pc' # "failed"]_vars

\* the stages of initialize that run under a progress indicator
ProgressStages == {"start_validator", "bootstrap", "update_ids", "build_all", "deploy_all"}

StageIndex(stage) ==
    CASE stage = "detect" -> 0
      [] stage = "check_toolset" -> 1
      [] stage = "map_program_names" -> 2
      [] stage = "start_validator" -> 3
      [] stage = "bootstrap" -> 4
      [] stage = "enumerate" -> 5
      [] stage = "update_ids" -> 6
      [] stage = "build_all" -> 7
      [] stage = "deploy_all" -> 8
      [] stage = "watching" -> 9

\* the stage has run and returned Ok
StageSucceeded(stage) ==
    /\ StageIndex(IF pc = "failed" THEN failed_at ELSE pc) > StageIndex(stage)
    /\ (stage = "bootstrap") => ("bootstrap_build" \in OpsIssued)

\* C20: every stage of initialize that runs under a progress indicator reports
\* its outcome: its success message is shown if and only if the stage returned
\* Ok, and its error message is shown whenever the stage failed.
C20_EveryStageReports ==
    \A stage \in ProgressStages :
        /\ ([stage |-> stage, kind |-> "success"] \in shown) <=> StageSucceeded(stage)
        /\ (pc = "failed" /\ failed_at = stage)
               => ([stage |-> stage, kind |-> "error"] \in shown)

\* C5: the operations of initialize are issued in the order of its stages:
\* toolset check, name mapping, validator start, bootstrap build, enumeration of
\* target/deploy, identity syncs, builds of the unique build paths, deploys; an
\* operation of a later stage never precedes one of an earlier stage.
C5_StagesInOrder ==
    \A i, j \in 1..Len(issued) : (i < j) => (StageOf(issued[i]) <= StageOf(issued[j]))

\* initialize returned Ok after a bootstrap build, an identity sync, two builds
\* and a deploy.
C5_Witness ==
    /\ pc = "watching"
    /\ {"bootstrap_build", "update_id", "build", "deploy"} \subseteq OpsIssued
    /\ Cardinality({i \in 1..Len(issued) : issued[i].op = "build"}) > 1

\* C6: when check_toolset finds no tool, initialize has failed at stage 1 with
\* the Project Map empty and nothing but the probes issued: no validator start,
\* no build, no deploy, no identity sync, and watching never starts.
C6_ToolsetFailFast ==
    (ToolsetMissing /\ pc # "check_toolset")
        => /\ pc = "failed"
           /\ failed_at = "check_toolset"
           /\ result = "err"
           /\ project_map = EmptyMap
           /\ OpsIssued \subseteq {"probe"}

\* Native's check_toolset has probed both build tools and found neither.
C6_Witness ==
    /\ fw = "native"
    /\ ToolsetMissing
    /\ pc = "failed"
    /\ Len(issued) > 1

\* the stages of initialize that run a callback per item (progress_with)
PerItemStages == {"update_ids", "build_all", "deploy_all"}

\* C11: the stages of initialize that work item by item are best-effort: when
\* the identity sync of one keypair file (or the build of one path, or the deploy
\* of one artifact) fails, the remaining items of the stage are still processed,
\* so such a stage never ends with items left.
C11_BestEffortPerItem ==
    (pc = "failed" /\ failed_at \in PerItemStages) => (todo = {} /\ builds_todo = {})

----------------------------------------------------------------------------
(* The watch loop: the properties *)

ControlSignals == {"Interrupt", "Terminate"}

\* the handler has returned for the action last taken
Returned == pc \in {"watching", "exited"} /\ result # "none"

\* an event whose outcome makes the framework's on_action return an error
Raises(e) ==
    \/ e.op \in {"locate", "lookup"} /\ e.result # "ok"
    \/ e.op \in {"deploy", "build", "update_id"} /\ e.result = "err"

\* the positions of issued that hold a build run in the directory of program
BuildsOf(program) ==
    {i \in 1..Len(issued) :
        issued[i].op = "build" /\ issued[i].cmd.cwd = Some(program)}

IsSource(path) == Extension(path.file) \in {Some(RS), Some(TOML)}

\* the changed source and manifest files of the action
SourcePaths == {p \in batch_paths : IsSource(p)}

\* no resolution of a changed source file to its program has failed
SourcesResolve ==
    \A i \in 1..Len(issued) : issued[i].op = "locate" => issued[i].result = "ok"

\* an error was raised in the first loop, before any build
RaisedBeforeBuilds ==
    \E i \in 1..Len(issued) : issued[i].op # "build" /\ Raises(issued[i])

\* C1: for an action that holds an interrupt or a terminate signal the handler
\* issues no build, no deploy and no identity sync, whatever paths the action
\* carries, and the framework's on_action is not called; it sets the outcome that
\* stops the children and exits.
C1_SignalPrecedence ==
    batch_signals \cap ControlSignals # {} =>
        /\ ~called
        /\ issued = <<>>
        /\ todo = {}
        /\ builds = <<>>
        /\ outcome = "stop_exit"
        /\ pc = "exited"

\* an action with a terminate signal that also carries a changed source file and
\* a changed artifact
C1_Witness ==
    /\ "Terminate" \in batch_signals
    /\ \E p \in batch_paths : IsSource(p)
    /\ \E p \in batch_paths : Extension(p.file) = Some(SO)
    /\ pc = "exited"

\* C2: whatever fails while an action without a control signal is handled (the
\* resolution of a path, a deploy, an identity sync, a build), the handler prints
\* the error and returns Ok, and the loop goes on to take the next action.
C2_ErrorsNeverStopTheLoop ==
    /\ (\E i \in 1..Len(issued) : Raises(issued[i])) =>
          /\ logged
          /\ result = "ok"
          /\ pc = "watching"
    /\ (Returned /\ called) => (result = "ok" /\ pc = "watching")
    /\ logged => called

\* an action handled to its end after the action before it had raised an error
C2_Witness ==
    /\ prev_logged
    /\ called
    /\ Returned
    /\ issued # <<>>

\* C3 (as claimed): when the K >= 1 changed source and manifest files of an action
\* all resolve to the same program, exactly one build of that program is issued
\* for the action.
C3_ExactlyOneBuild ==
    (/\ Returned
     /\ called
     /\ fw # "seahorse"
     /\ SourcePaths # {}
     /\ SourcesResolve) =>
        \A program \in {P1, P2, Origin} :
            (\A p \in SourcePaths : LocatedProject(p) = program)
                => Cardinality(BuildsOf(program)) = 1

\* C3 (amended): an action never issues more than one build of a program, however
\* many of its changed files resolve to it; and when its K >= 1 changed source and
\* manifest files all resolve to the same program and no error is raised in the
\* first loop (which abandons the action), exactly one build of it is issued.
C3_OneBuildPerProgram ==
    fw # "seahorse" =>
        /\ \A program \in {P1, P2, Origin} : Cardinality(BuildsOf(program)) <= 1
        /\ (/\ Returned
            /\ called
            /\ SourcePaths # {}
            /\ ~RaisedBeforeBuilds) =>
               \A program \in {P1, P2, Origin} :
                   (\A p \in SourcePaths : LocatedProject(p) = program)
                       => Cardinality(BuildsOf(program)) = 1

\* two changed files of the same program, one build
C3_Witness ==
    /\ Returned
    /\ called
    /\ fw # "seahorse"
    /\ {P1LibRs, P1CargoToml} \subseteq batch_paths
    /\ Cardinality(BuildsOf(P1)) = 1

\* the events the step being taken appends to issued
NewEvents == SubSeq(issued', Len(issued) + 1, Len(issued'))

\* C15: the default on_action classifies each unique changed path by its
\* extension only: .rs or .toml adds the owning program to the build set and
\* runs nothing else, .so runs a deploy of that path, .json runs the identity
\* sync of that path, and any other extension, or none, triggers nothing.
C15_DefaultClassification ==
    [][(pc = "classify" /\ fw # "seahorse" /\ todo' # todo)
          => \A path \in todo \ todo' :
                LET ext == Extension(path.file)
                    ops == {NewEvents[i].op : i \in 1..Len(NewEvents)}
                IN  /\ (ext \in {Some(RS), Some(TOML)})
                          => /\ ops = {"locate"}
                             /\ NewEvents[1].path = path
                             /\ (NewEvents[1].result = "ok")
                                    => builds' = insert_unique(builds, LocatedProject(path))
                             /\ (NewEvents[1].result # "ok") => builds' = builds
                    /\ (ext = Some(SO))
                          => /\ ops = {"deploy"}
                             /\ Len(NewEvents) = 1
                             /\ NewEvents[1].cmd = deploy(fw, project_map, path)
                             /\ builds' = builds
                    /\ (ext = Some(JSON))
                          => /\ ops \subseteq {"lookup", "update_id"}
                             /\ (get_program_path(project_map, path) # None)
                                    => /\ NewEvents # <<>>
                                       /\ NewEvents[1].op = "lookup"
                                       /\ NewEvents[1].path = path
                             /\ builds' = builds
                    /\ (ext \notin {Some(RS), Some(TOML), Some(SO), Some(JSON)})
                          => /\ NewEvents = <<>>
                             /\ builds' = builds
                             /\ ~logged']_vars

\* Anchor's first loop has visited a manifest, an artifact and a file of another
\* extension: one program to build, one deploy issued.
C15_Witness ==
    /\ fw = "anchor"
    /\ batch_paths = {P1CargoToml, ElfAB, Notes}
    /\ pc = "build"
    /\ builds = <<P1>>
    /\ Len(issued) = 2

\* C16: no two builds run at once: at most one build command is running at any
\* moment, and while one runs the handler waits for it, so that no other action
\* is taken before it has exited.
C16_OneBuildAtATime ==
    /\ Cardinality(running) <= 1
    /\ (running # {}) => (pc = "await_build")

\* a build is running while another program of the build set waits its turn.
C16_Witness ==
    /\ Cardinality(running) = 1
    /\ builds_todo # {}
    /\ Len(builds) > 1

\* C17: handling an action in steady state (builds, deploys, identity syncs and
\* the lookups they make) never changes the entries of the Project Map.
C17_MapReadOnlyWhileWatching ==
    [][project_map' = project_map]_vars

\* an action with a deploy, an identity sync and a build has been handled by a
\* framework whose map has a program under a folded name.
C17_Witness ==
    /\ pc = "watching"
    /\ result = "ok"
    /\ {"deploy", "update_id", "build"} \subseteq {issued[i].op : i \in 1..Len(issued)}
    /\ get_program_path_from_name(project_map, <<"a", "-", "b">>) # None

\* C21: when an action that holds an interrupt or a terminate signal is handled,
\* the handler sets the outcome that stops the children and then exits, and no
\* action is handled after it: nothing more is gathered, taken or run.
C21_Cancellation ==
    /\ (Returned /\ batch_signals \cap ControlSignals # {}) => (outcome = "stop_exit")
    /\ (outcome = "stop_exit") => (pc = "exited" /\ running = {})
    /\ (pc = "exited") => ~ENABLED WatchNext

\* an interrupt arrives after an action whose handling printed an error
C21_Witness ==
    /\ pc = "exited"
    /\ "Interrupt" \in batch_signals
    /\ prev_logged
    /\ outcome = "stop_exit"

\* C22: the deploy command issued for an artifact: for Anchor and Seahorse it is
\* `anchor deploy -p <name>` exactly when the artifact has a program in the
\* project map, <name> being the last component of that program's path, and the
\* bare `anchor deploy` otherwise; for Native it is always
\* `solana program deploy <artifact path>`.
C22_DeployScoping ==
    [][(pc = "deploy_all" /\ todo' # todo) =>
        \A path \in todo \ todo' :
            LET cmd == issued'[Len(issued')].cmd
                program == get_program_path(project_map, path)
            IN  IF fw = "native"
                THEN cmd.tool = "solana program deploy" /\ cmd.arg = Some(path)
                ELSE /\ (cmd.tool = "anchor deploy -p") <=> (program # None)
                     /\ (program # None) => (cmd.arg = Some(program[1].file))
                     /\ (program = None) => (cmd.tool = "anchor deploy" /\ cmd.arg = None)]_vars

\* one initialize of an Anchor project issues a scoped and a bare deploy
C22_Witness ==
    /\ fw = "anchor"
    /\ \E i, j \in 1..Len(issued) :
        /\ issued[i].op = "deploy" /\ issued[i].cmd.tool = "anchor deploy -p"
        /\ issued[j].op = "deploy" /\ issued[j].cmd.tool = "anchor deploy"

\* the programs that own a keypair file or an artifact found in target/deploy
Owners ==
    {get_program_path(project_map, f)[1] :
        f \in {g \in keypair_paths \cup elf_paths :
                  get_program_path(project_map, g) # None}}

\* the positions of issued that hold a build of program by the build stage
StageBuildsOf(program) ==
    {i \in 1..Len(issued) :
        issued[i].op = "build" /\ issued[i].cmd = build(fw, build_cmd, program)}

\* the build stage of initialize has ended, with Ok or with an error
BuildStageEnded ==
    \/ pc \in {"deploy_all", "watching"}
    \/ pc = "failed" /\ failed_at \in {"build_all", "deploy_all"}

\* C23: in initialize, each program that owns at least one keypair file or
\* artifact found in target/deploy is built exactly once by the build stage,
\* however many of those files resolve to it, and no other program is built.
C23_UniqueBuildPaths ==
    BuildStageEnded =>
        \A program \in {P1, P2, PyAB, PyC, Origin} :
            Cardinality(StageBuildsOf(program)) =
                (IF program \in Owners THEN 1 ELSE 0)

\* the positions of issued that hold an event of this kind
EventsOf(op) == {i \in 1..Len(issued) : issued[i].op = op}

\* the paths of the action that the first loop has visited
Visited == batch_paths \ todo

\* C24: a path that several notifications of an action mention is processed
\* once: it is one of the unique paths, each visited artifact path has exactly
\* one deploy and each visited keypair path of a known program exactly one
\* identity lookup, however many notifications mention it.
C24_PathInterning ==
    called =>
        /\ batch_repeats \subseteq batch_paths
        /\ Cardinality(EventsOf("deploy")) =
               Cardinality({p \in Visited : Extension(p.file) = Some(SO)})
        /\ Cardinality(EventsOf("lookup")) =
               Cardinality({p \in Visited :
                               /\ Extension(p.file) = Some(JSON)
                               /\ get_program_path(project_map, p) # None})
        /\ \A i \in EventsOf("lookup") :
               Cardinality({j \in EventsOf("lookup") :
                               issued[j].path = issued[i].path}) = 1

\* an artifact mentioned by two notifications and a keypair file by a third: one
\* deploy and one identity lookup when the action has been handled
C24_Witness ==
    /\ Returned
    /\ called
    /\ ElfAB \in batch_repeats
    /\ batch_paths = {ElfAB, KeypairAB}
    /\ Cardinality(EventsOf("deploy")) = 1
    /\ Cardinality(EventsOf("lookup")) = 1

\* C25: in an action, a build or a deploy that runs and exits with a non-zero
\* status raises nothing: the handler prints an error only when some event
\* raised one (for a build or a deploy: the command could not be run), and an
\* action in which nothing raised is handled to its end, every path visited and
\* every program of the build set built.
C25_NonZeroExitIsNotAnError ==
    /\ logged => \E i \in 1..Len(issued) : Raises(issued[i])
    /\ (Returned /\ called /\ ~\E i \in 1..Len(issued) : Raises(issued[i])) =>
          /\ ~logged
          /\ todo = {}
          /\ builds_todo = {}
          /\ Cardinality(EventsOf("deploy")) =
                 Cardinality({p \in batch_paths : Extension(p.file) = Some(SO)})
          /\ (fw # "seahorse") => (Cardinality(EventsOf("build")) = Len(builds))

\* a deploy exits with a non-zero status, the identity sync and the build after
\* it are issued, the build exits with a non-zero status too, no error is printed
C25_Witness ==
    /\ Returned
    /\ called
    /\ ~logged
    /\ \E i, j, k \in 1..Len(issued) :
        /\ i < j /\ j < k
        /\ issued[i].op = "deploy" /\ issued[i].result = "fail"
        /\ issued[j].op = "update_id"
        /\ issued[k].op = "build" /\ issued[k].result = "fail"

\* the validator command has been spawned, with this outcome or any
ValidatorStarted(o) ==
    \E i \in 1..Len(issued) : issued[i].op = "validator" /\ issued[i].result = o

\* C26: the validator start is fire and forget: the stage never fails and waits
\* for nothing but its fixed delay, so whether the validator runs, has exited or
\* could not be spawned the stage shows its success message and initialize goes
\* on to the bootstrap build (and reaches the deploys with no network ready).
C26_ValidatorFireAndForget ==
    /\ failed_at # "start_validator"
    /\ \A o \in Outcomes :
          ValidatorStarted(o) =>
              /\ spinner_with("start_validator", TRUE) \in shown
              /\ spinner_with("start_validator", FALSE) \notin shown
              /\ pc \notin {"detect", "check_toolset", "map_program_names",
                            "start_validator"}
              /\ (pc = "failed") => StageIndex(failed_at) > StageIndex("start_validator")

\* a deploy is issued although the validator could not be started
C26_Witness ==
    /\ ValidatorStarted("fail") \/ ValidatorStarted("err")
    /\ \E i \in 1..Len(issued) : issued[i].op = "deploy"

C28_LookupOrder ==
    (Asked /\ DerivedName # None) =>
        LET D == DerivedName[1]
            F == ReplaceUnderscores(D)
        IN  /\ (D \in Keys) => (qresult = Some(project_map[D]))
            /\ (D \in Keys /\ F \in Keys /\ project_map[F] # project_map[D])
                   => (qresult # Some(project_map[F]))
            /\ (D \notin Keys /\ F \in Keys) => (qresult = Some(project_map[F]))

\* both forms of a name are keys with different paths, and a file named after
\* the form with the underscore has been looked up
C28_Witness ==
    /\ Asked
    /\ DerivedName = Some(<<"a", "_">>)
    /\ {<<"a", "_">>, <<"a", "-">>} \subseteq Keys
    /\ project_map[<<"a", "_">>] # project_map[<<"a", "-">>]
    /\ qresult = Some(project_map[<<"a", "_">>])

\* C29: the identity sync of a Rust program checks src/lib.rs first and the other
\* .rs files of src only when lib.rs holds no declaration: whenever lib.rs holds
\* one, equal to the identity or not, no other source file is modified.
C29_LibRsFirst ==
    \A i \in 1..Len(syncs) :
        LET before == syncs[i].before
            after == syncs[i].after
        IN  (LIB_RS \in DOMAIN before /\ captures("rust", before[LIB_RS]) # None)
                => \A f \in DOMAIN before \ {LIB_RS} : after[f] = before[f]

\* C30: in the default on_action a build is issued only when every unique path
\* of the action has been classified: no path is left to visit, every deploy
\* and identity sync of the action precedes the first build and has completed
\* (only builds are ever running), and nothing but builds follows a build.
C30_BuildsAfterClassification ==
    (fw # "seahorse") =>
        /\ \A i \in EventsOf("build") :
              /\ todo = {}
              /\ \A j \in 1..Len(issued) : (j > i) => (issued[j].op = "build")
        /\ (builds_todo # {} /\ EventsOf("build") # {}) => (todo = {})
        /\ \A cmd \in running : \E i \in EventsOf("build") : issued[i].cmd = cmd

\* Native's first build runs after a deploy and an identity sync of the action
C30_Witness ==
    /\ fw = "native"
    /\ pc = "await_build"
    /\ running # {}
    /\ Cardinality(EventsOf("build")) = 1
    /\ {"deploy", "update_id", "locate"} \subseteq {issued[i].op : i \in 1..Len(issued)}

\* C31: the bootstrap build is a build of the whole project in every framework:
\* Native and Anchor run their build tool in the project root, and Seahorse runs
\* the bare `seahorse build`, not a build scoped with -p to one program name.
C31_BootstrapBuildsWholeProject ==
    \A i \in 1..Len(issued) :
        (issued[i].op = "bootstrap_build") =>
            IF fw = "seahorse"
            THEN issued[i].cmd = [tool |-> "seahorse build", arg |-> None, cwd |-> None]
            ELSE /\ issued[i].cmd.cwd = Some(Origin)
                 /\ issued[i].cmd.arg = None
                 /\ issued[i].cmd.tool = (IF fw = "native" THEN build_cmd ELSE "anchor build")

\* C32: in the default on_action the first error raised in the first loop (a
\* source file whose program cannot be found, an identity sync that fails, a
\* deploy that cannot be run) abandons the whole action: nothing is processed
\* after it, the paths not yet visited stay unvisited, and no build is issued,
\* not even of the programs already collected in the build set.
C32_FirstErrorAbandonsAction ==
    (fw # "seahorse") =>
        \A i \in 1..Len(issued) :
            (issued[i].op # "build" /\ Raises(issued[i])) =>
                /\ i = Len(issued)
                /\ EventsOf("build") = {}
                /\ builds_todo = {}
                /\ running = {}
                /\ pc = "watching"

\* an error is raised when a program has been collected and a path is left
C32_Witness ==
    /\ fw = "native"
    /\ RaisedBeforeBuilds
    /\ builds # <<>>
    /\ todo # {}
    /\ EventsOf("build") = {}
    /\ Returned

\* the files an identity sync has modified
Modified(s) == {f \in DOMAIN s.before : s.after[f] # s.before[f]}

\* C33: one identity sync request modifies at most one source file (no file is
\* written after the first whose declaration is rewritten) and runs the identity
\* lookup exactly once; when the lookup fails no file is modified.
C33_AtMostOneFileModified ==
    \A i \in 1..Len(syncs) :
        /\ Cardinality(Modified(syncs[i])) <= 1
        /\ Len(syncs[i].lookups) = 1
        /\ syncs[i].lookups[1].op = "lookup"
        /\ (syncs[i].lookups[1].result # "ok") => (Modified(syncs[i]) = {})
        /\ DOMAIN syncs[i].after = DOMAIN syncs[i].before

\* lib.rs holds no declaration and two other files hold one that differs from
\* the identity: one of them is rewritten, the other is left as it was
C33_Witness ==
    \E i \in 1..Len(syncs) :
        LET s == syncs[i]
        IN  /\ LIB_RS \in DOMAIN s.before
            /\ captures("rust", s.before[LIB_RS]) = None
            /\ s.target = <<"A">>
            /\ s.before[STATE_RS] = RustDecl(<<"B">>) \o <<";">>
            /\ s.before[UTILS_RS] = RustDecl(<<"B">>) \o <<";">>
            /\ Cardinality(Modified(s)) = 1
            /\ s.returned = "Ok"

\* C34: in the Seahorse variant the name that scopes the deploy of a program's
\* artifact (`anchor deploy -p X`) is the name under which the program is stored
\* in the project map, which is also the name that scopes its build
\* (`seahorse build -p X`): the file name of its .py source without the suffix.
C34_SeahorseDeployName ==
    (fw = "seahorse") =>
        \A i \in 1..Len(issued) :
            (issued[i].op = "deploy" /\ issued[i].cmd.tool = "anchor deploy -p") =>
                \E name \in DOMAIN project_map :
                    /\ issued[i].cmd.arg = Some(name)
                    /\ build(fw, build_cmd, project_map[name]).arg = Some(name)

====
